---- MODULE Spec2Model ----
(***************************************************************************)
(* Model of the lint rule no-deep-relative-imports                         *)
(* (src/src/rules/NoDeepRelativeImports.ts).                               *)
(*                                                                         *)
(* A string is the sequence of its characters, one element per character: *)
(* an ASCII character is written as itself, a non-ASCII character as the   *)
(* token "uXXXX" of its code point.                                        *)
(***************************************************************************)
EXTENDS Integers, Sequences, FiniteSets, TLC

VARIABLES options, maxDepth, visited, reports, calls, input

vars == <<options, maxDepth, visited, reports, calls, input>>

(***************************************************************************)
(* Bounds.                                                                 *)
(***************************************************************************)
\* longest specifier handed to checkRelativePath on its own
MaxLen == 9
\* largest limit handed to checkRelativePath on its own
MaxLimit == 2
\* most "../" segments of a specifier inside a traversed file
MaxUp == 3
\* most nodes the traversal engine visits in one file
MaxVisits == 2
\* most path pieces of a specifier of a node visited alone
MaxSegs == 5
\* largest maxDepth a caller puts into the plugin options
MaxOptDepth == 3

(***************************************************************************)
(* Strings.                                                                *)
(***************************************************************************)
Chars == {".", "/", "a"}

Strings(n) == UNION {[1..k -> Chars] : k \in 0..n}

\* String.prototype.startsWith with a one-character search string
startsWith(s, c) == Len(s) >= 1 /\ s[1] = c

\* (s.match(/\.\.\//g) || []).length : the global match scans from the left,
\* resumes right after a match and one character further after a mismatch
RECURSIVE matchFrom(_, _)
matchFrom(s, i) ==
  IF i + 2 > Len(s) THEN 0
  ELSE IF s[i] = "." /\ s[i + 1] = "." /\ s[i + 2] = "/"
       THEN 1 + matchFrom(s, i + 3)
       ELSE matchFrom(s, i + 1)

\* a plausible slip: only the leading run of "../" is counted
RECURSIVE leadingFrom(_, _)
leadingFrom(s, i) ==
  IF i + 2 > Len(s) THEN 0
  ELSE IF s[i] = "." /\ s[i + 1] = "." /\ s[i + 2] = "/"
       THEN 1 + leadingFrom(s, i + 3)
       ELSE 0

matchCount_leading(s) == leadingFrom(s, 1)

matchCount(s) == matchFrom(s, 1)

Digit(d) == CASE d = 0 -> "0" [] d = 1 -> "1" [] d = 2 -> "2" [] d = 3 -> "3"
              [] d = 4 -> "4" [] d = 5 -> "5" [] d = 6 -> "6" [] d = 7 -> "7"
              [] d = 8 -> "8" [] d = 9 -> "9"

\* ${n} of a template literal, n a non-negative integer
RECURSIVE NumToString(_)
NumToString(n) ==
  IF n < 10 THEN <<Digit(n)>> ELSE NumToString(n \div 10) \o <<Digit(n % 10)>>

ZhHead == <<"u5bfc", "u5165", "/", "u5bfc", "u51fa", "u8def", "u5f84", " ", "\"">>
ZhMid == <<"\"", " ", "u4e0d", "u80fd", "u8d85", "u8fc7", "u6700", "u5927", "u5c42", "u7ea7", "uff08">>
ZhTail == <<"uff1a", "u5c42", "uff09">>

\* a plausible slip: the computed depth is printed instead of the limit
message_depth(sourceValue, maxD) ==
  ZhHead \o sourceValue \o ZhMid \o NumToString(matchCount(sourceValue)) \o ZhTail

\* the template literal of the report call
message(sourceValue, maxD) ==
  ZhHead \o sourceValue \o ZhMid \o NumToString(maxD) \o ZhTail

(***************************************************************************)
(* Syntax-tree nodes (the @babel/types vocabulary the rule reads).         *)
(***************************************************************************)
Null == [type |-> "null"]

StringLiteral(v) == [type |-> "StringLiteral", value |-> v]
Identifier(n) == [type |-> "Identifier", name |-> n]
Import == [type |-> "Import"]
TemplateLiteral == [type |-> "TemplateLiteral"]
MemberExpression(o, p) == [type |-> "MemberExpression", object |-> o, property |-> p]
Call(c, a) == [type |-> "CallExpression", callee |-> c, arguments |-> a]
ImportDecl(src) == [type |-> "ImportDeclaration", source |-> src]
ExportNamed(src) == [type |-> "ExportNamedDeclaration", source |-> src]
ExportAll(src) == [type |-> "ExportAllDeclaration", source |-> src]

\* t.isImport, t.isStringLiteral, t.isMemberExpression, t.isIdentifier(node, {name})
isImport(node) == node.type = "Import"
isStringLiteral(node) == node.type = "StringLiteral"
isMemberExpression(node) == node.type = "MemberExpression"

\* a plausible slip: the name option is dropped
isIdentifier_anyName(node, name) == node.type = "Identifier"

isIdentifier(node, name) == node.type = "Identifier" /\ node.name = name

\* typeof v === 'string'
IsString(v) == v \in Seq(Chars)

NodePath(n, k) == [node |-> n, key |-> k]

(***************************************************************************)
(* The plugin factory and the injected report callback.                    *)
(***************************************************************************)
DefaultMaxDepth == 2

Options == {[report |-> "report"]}
             \cup {[report |-> "report", maxDepth |-> d] : d \in 0..MaxOptDepth}

\* a plausible slip: the limit is read from the options
Plugin_tunable(opts) ==
  [name |-> "no-deep-relative-imports",
   maxDepth |-> IF "maxDepth" \in DOMAIN opts THEN opts.maxDepth ELSE DefaultMaxDepth]

\* export default function (api, options): const maxDepth = 2
Plugin(opts) == [name |-> "no-deep-relative-imports", maxDepth |-> DefaultMaxDepth]

\* the injected callback, a recording sink
report(path, msg) == reports' = Append(reports, [path |-> path, message |-> msg])

(***************************************************************************)
(* checkRelativePath.  calls records every invocation.                     *)
(***************************************************************************)
\* a plausible slip: the relative-path test is dropped
checkRelativePath_anyPath(sourceValue, path, maxD) ==
  /\ calls' = Append(calls, [sourceValue |-> sourceValue, key |-> path.key, maxDepth |-> maxD])
  /\ LET depth == matchCount(sourceValue) IN
       IF depth > maxD
       THEN report(path, message(sourceValue, maxD))
       ELSE UNCHANGED reports

\* a plausible slip: the new report is put in front of the earlier ones
checkRelativePath_front(sourceValue, path, maxD) ==
  /\ calls' = Append(calls, [sourceValue |-> sourceValue, key |-> path.key, maxDepth |-> maxD])
  /\ IF startsWith(sourceValue, ".") /\ matchCount(sourceValue) > maxD
     THEN reports' = <<[path |-> path, message |-> message(sourceValue, maxD)]>> \o reports
     ELSE UNCHANGED reports

\* a plausible slip: a message that was reported before is not reported again
checkRelativePath_dedup(sourceValue, path, maxD) ==
  /\ calls' = Append(calls, [sourceValue |-> sourceValue, key |-> path.key, maxDepth |-> maxD])
  /\ IF /\ startsWith(sourceValue, ".")
        /\ matchCount(sourceValue) > maxD
        /\ \A i \in 1..Len(reports) : reports[i].message # message(sourceValue, maxD)
     THEN report(path, message(sourceValue, maxD))
     ELSE UNCHANGED reports

checkRelativePath(sourceValue, path, maxD) ==
  /\ calls' = Append(calls, [sourceValue |-> sourceValue, key |-> path.key, maxDepth |-> maxD])
  /\ IF startsWith(sourceValue, ".")
     THEN LET depth == matchCount(sourceValue) IN
            IF depth > maxD
            THEN report(path, message(sourceValue, maxD))
            ELSE UNCHANGED reports
     ELSE UNCHANGED reports

(***************************************************************************)
(* The visitor: one handler per node kind.                                 *)
(***************************************************************************)
ImportDeclaration(path) ==
  LET sourceValue == path.node.source.value IN
    IF IsString(sourceValue)
    THEN checkRelativePath(sourceValue, path, maxDepth)
    ELSE UNCHANGED <<reports, calls>>

\* a plausible slip: the member test looks at the property, not at the object
CallExpression_property(path) ==
  IF isImport(path.node.callee)
  THEN IF Len(path.node.arguments) >= 1 /\ isStringLiteral(path.node.arguments[1])
       THEN checkRelativePath(path.node.arguments[1].value, path, maxDepth)
       ELSE UNCHANGED <<reports, calls>>
  ELSE IF \/ isIdentifier(path.node.callee, "require")
          \/ /\ isMemberExpression(path.node.callee)
             /\ isIdentifier(path.node.callee.property, "require")
       THEN IF Len(path.node.arguments) >= 1 /\ isStringLiteral(path.node.arguments[1])
            THEN checkRelativePath(path.node.arguments[1].value, path, maxDepth)
            ELSE UNCHANGED <<reports, calls>>
       ELSE UNCHANGED <<reports, calls>>

\* a plausible slip: the first string literal among the arguments is taken
CallExpression_anyArg(path) ==
  LET lits == {i \in 1..Len(path.node.arguments) : isStringLiteral(path.node.arguments[i])}
      first == CHOOSE i \in lits : \A j \in lits : i <= j
  IN IF \/ isImport(path.node.callee)
        \/ isIdentifier(path.node.callee, "require")
        \/ /\ isMemberExpression(path.node.callee)
           /\ isIdentifier(path.node.callee.object, "require")
     THEN IF lits # {}
          THEN checkRelativePath(path.node.arguments[first].value, path, maxDepth)
          ELSE UNCHANGED <<reports, calls>>
     ELSE UNCHANGED <<reports, calls>>

CallExpression(path) ==
  IF isImport(path.node.callee)
  THEN LET firstArg == path.node.arguments[1] IN
         IF Len(path.node.arguments) >= 1 /\ isStringLiteral(firstArg)
         THEN LET sourceValue == firstArg.value IN
                checkRelativePath(sourceValue, path, maxDepth)
         ELSE UNCHANGED <<reports, calls>>
  ELSE IF \/ isIdentifier(path.node.callee, "require")
          \/ /\ isMemberExpression(path.node.callee)
             /\ isIdentifier(path.node.callee.object, "require")
       THEN LET firstArg == path.node.arguments[1] IN
              IF Len(path.node.arguments) >= 1 /\ isStringLiteral(firstArg)
              THEN LET sourceValue == firstArg.value IN
                     checkRelativePath(sourceValue, path, maxDepth)
              ELSE UNCHANGED <<reports, calls>>
       ELSE UNCHANGED <<reports, calls>>

ExportNamedDeclaration(path) ==
  IF path.node.source # Null
  THEN LET sourceValue == path.node.source.value IN
         IF IsString(sourceValue)
         THEN checkRelativePath(sourceValue, path, maxDepth)
         ELSE UNCHANGED <<reports, calls>>
  ELSE UNCHANGED <<reports, calls>>

\* a plausible slip: the wildcard re-export is not checked
ExportAllDeclaration_skip(path) == UNCHANGED <<reports, calls>>

ExportAllDeclaration(path) ==
  LET sourceValue == path.node.source.value IN
    IF IsString(sourceValue)
    THEN checkRelativePath(sourceValue, path, maxDepth)
    ELSE UNCHANGED <<reports, calls>>

(***************************************************************************)
(* The nodes the traversal engine hands to the visitor.                    *)
(***************************************************************************)
RECURSIVE Ups(_)
Ups(k) == IF k = 0 THEN <<>> ELSE <<".", ".", "/">> \o Ups(k - 1)

\* specifiers of the nodes of a traversed file: "./", "a/" or nothing, then
\* up to MaxUp times "../", then a name
FilePrefixes == {<<>>, <<".", "/">>, <<"a", "/">>}
FilePaths == {pre \o Ups(k) \o <<"a">> : pre \in FilePrefixes, k \in 0..MaxUp}

\* specifiers of a node visited alone: up to MaxSegs pieces
Pieces == {<<".", ".", "/">>, <<".", "/">>, <<"a">>}
RECURSIVE Joined(_)
Joined(n) ==
  IF n = 0 THEN {<<>>}
  ELSE Joined(n - 1) \cup {s \o p : s \in Joined(n - 1), p \in Pieces}
AllPaths == Joined(MaxSegs)

Declarations(paths) ==
  {ImportDecl(StringLiteral(p)) : p \in paths}
    \cup {ExportNamed(StringLiteral(p)) : p \in paths}
    \cup {ExportNamed(Null)}
    \cup {ExportAll(StringLiteral(p)) : p \in paths}

\* no argument, a first argument that is no string literal (a string literal
\* may follow it), or a string literal
Arguments(paths) ==
  {<<>>, <<Identifier("p")>>, <<TemplateLiteral>>,
   <<Identifier("p"), StringLiteral(Ups(MaxUp) \o <<"a">>)>>}
    \cup {<<StringLiteral(p)>> : p \in paths}

FileCallees == {Import, Identifier("require")}

AllCallees ==
  {Import, Identifier("require"), Identifier("foo"),
   MemberExpression(Identifier("require"), Identifier("resolve")),
   MemberExpression(Identifier("window"), Identifier("require")),
   MemberExpression(MemberExpression(Identifier("window"), Identifier("require")),
                    Identifier("resolve")),
   Call(Identifier("require"), <<>>)}

Calls(callees, paths) == {Call(c, a) : c \in callees, a \in Arguments(paths)}

FileNodes == Declarations(FilePaths) \cup Calls(FileCallees, FilePaths)
AllNodes == Declarations(AllPaths) \cup Calls(AllCallees, AllPaths)

NoInput == [sourceValue |-> <<>>, maxDepth |-> 0]

(***************************************************************************)
(* Traversal of one file: the engine visits one node at a time and calls   *)
(* the handler registered for its kind.                                    *)
(***************************************************************************)
\* the plugin built from options o, before the first visit
Constructed(o) ==
  /\ options = o
  /\ maxDepth = Plugin(o).maxDepth
  /\ visited = <<>>
  /\ reports = <<>>
  /\ calls = <<>>

Init == Constructed([report |-> "report"]) /\ input = NoInput

Enter(n) ==
  /\ visited' = Append(visited, n)
  /\ UNCHANGED <<options, maxDepth, input>>

VisitImportDeclaration(nodes, bound) ==
  /\ Len(visited) < bound
  /\ \E n \in nodes :
       /\ n.type = "ImportDeclaration"
       /\ Enter(n)
       /\ ImportDeclaration(NodePath(n, Len(visited) + 1))

VisitCallExpression(nodes, bound) ==
  /\ Len(visited) < bound
  /\ \E n \in nodes :
       /\ n.type = "CallExpression"
       /\ Enter(n)
       /\ CallExpression(NodePath(n, Len(visited) + 1))

VisitExportNamedDeclaration(nodes, bound) ==
  /\ Len(visited) < bound
  /\ \E n \in nodes :
       /\ n.type = "ExportNamedDeclaration"
       /\ Enter(n)
       /\ ExportNamedDeclaration(NodePath(n, Len(visited) + 1))

VisitExportAllDeclaration(nodes, bound) ==
  /\ Len(visited) < bound
  /\ \E n \in nodes :
       /\ n.type = "ExportAllDeclaration"
       /\ Enter(n)
       /\ ExportAllDeclaration(NodePath(n, Len(visited) + 1))

Next ==
  \/ VisitImportDeclaration(FileNodes, MaxVisits)
  \/ VisitCallExpression(FileNodes, MaxVisits)
  \/ VisitExportNamedDeclaration(FileNodes, MaxVisits)
  \/ VisitExportAllDeclaration(FileNodes, MaxVisits)

Spec == Init /\ [][Next]_vars

(***************************************************************************)
(* One node visited alone, over every callee and argument shape.           *)
(***************************************************************************)
NextVisit ==
  \/ VisitImportDeclaration(AllNodes, 1)
  \/ VisitCallExpression(AllNodes, 1)
  \/ VisitExportNamedDeclaration(AllNodes, 1)
  \/ VisitExportAllDeclaration(AllNodes, 1)

InitVisit == (\E o \in Options : Constructed(o)) /\ input = NoInput

SpecVisit == InitVisit /\ [][NextVisit]_vars

(***************************************************************************)
(* checkRelativePath on its own, for every specifier and limit.            *)
(***************************************************************************)
InitClassify ==
  /\ Constructed([report |-> "report"])
  /\ input \in [sourceValue : Strings(MaxLen), maxDepth : 0..MaxLimit]

Classify ==
  /\ calls = <<>>
  /\ checkRelativePath(input.sourceValue,
                       NodePath(ImportDecl(StringLiteral(input.sourceValue)), 1),
                       input.maxDepth)
  /\ UNCHANGED <<options, maxDepth, visited, input>>

NextClassify == Classify

SpecClassify == InitClassify /\ [][NextClassify]_vars

(***************************************************************************)
(* Vocabulary of the properties, stated without the operators above.       *)
(***************************************************************************)
\* the places of s where the three characters "../" stand
Occurrences(s) ==
  {i \in 1..(Len(s) - 2) : s[i] = "." /\ s[i + 1] = "." /\ s[i + 2] = "/"}

\* s is relative and holds more than limit times "../"
Exceeds(s, limit) ==
  /\ Len(s) >= 1
  /\ s[1] = "."
  /\ Cardinality(Occurrences(s)) > limit

\* the first argument of call node n is a string literal
LiteralFirstArg(n) ==
  /\ Len(n.arguments) >= 1
  /\ n.arguments[1].type = "StringLiteral"

\* callee c is import, require, or a member access on require
CheckedCallee(c) ==
  \/ c.type = "Import"
  \/ c.type = "Identifier" /\ c.name = "require"
  \/ /\ c.type = "MemberExpression"
     /\ c.object.type = "Identifier"
     /\ c.object.name = "require"

\* the specifier node n carries, as a set of at most one string
SpecifierOf(n) ==
  CASE n.type \in {"ImportDeclaration", "ExportAllDeclaration"} -> {n.source.value}
    [] n.type = "ExportNamedDeclaration" ->
         IF n.source.type = "StringLiteral" THEN {n.source.value} ELSE {}
    [] n.type = "CallExpression" ->
         IF CheckedCallee(n.callee) /\ LiteralFirstArg(n)
         THEN {n.arguments[1].value} ELSE {}

Offending(n, limit) == \E s \in SpecifierOf(n) : Exceeds(s, limit)

\* the messages reported for the i-th visited node, in order
MessagesAt(reps, i) ==
  LET at == SelectSeq(reps, LAMBDA r : r.path.key = i)
  IN [j \in 1..Len(at) |-> at[j].message]

\* the invocations of checkRelativePath made by the i-th visit
CallsAt(i) == SelectSeq(calls, LAMBDA c : c.key = i)

Visits == 1..Len(visited)

(***************************************************************************)
(* C1                                                                      *)
(***************************************************************************)
\* C1: checkRelativePath reports a violation if and only if the specifier
\* begins with "." and holds more than limit occurrences of "../", counted
\* anywhere in the string.
C1_DepthCheck ==
  calls # <<>> =>
    /\ Len(reports) <= 1
    /\ reports # <<>> <=> Exceeds(input.sourceValue, input.maxDepth)

\* "./../../" under limit 1: two occurrences, none of them leading
C1_Witness ==
  /\ input.sourceValue = <<".", "/", ".", ".", "/", ".", ".", "/">>
  /\ input.maxDepth = 1
  /\ Len(reports) = 1

(***************************************************************************)
(* C2                                                                      *)
(***************************************************************************)
EnHead == <<"I", "m", "p", "o", "r", "t", "/", "e", "x", "p", "o", "r", "t", " ",
            "p", "a", "t", "h", " ", "\"">>
EnMid == <<"\"", " ", "m", "u", "s", "t", " ", "n", "o", "t", " ", "e", "x", "c",
           "e", "e", "d", " ", "t", "h", "e", " ", "m", "a", "x", "i", "m", "u",
           "m", " ", "d", "e", "p", "t", "h", " ", "(">>
EnTail == <<" ", "l", "e", "v", "e", "l", "s", ")">>

\* C2 as claimed: the reported message is the English sentence
\* Import/export path "<s>" must not exceed the maximum depth (<L> levels).
C2_EnglishMessage ==
  \A j \in 1..Len(reports) :
    reports[j].message =
      EnHead \o input.sourceValue \o EnMid \o NumToString(input.maxDepth) \o EnTail

\* C2: the reported message is the text of the template literal of the source,
\* u5bfc u5165 / u5bfc u51fa u8def u5f84 "<s>" u4e0d u80fd u8d85 u8fc7 u6700
\* u5927 u5c42 u7ea7 uff08 <L> uff1a u5c42 uff09, with s the unmodified
\* specifier and L the limit in decimal.
C2_Message ==
  \A j \in 1..Len(reports) :
    reports[j].message =
      <<"u5bfc", "u5165", "/", "u5bfc", "u51fa", "u8def", "u5f84", " ", "\"">>
        \o input.sourceValue
        \o <<"\"", " ", "u4e0d", "u80fd", "u8d85", "u8fc7", "u6700", "u5927",
             "u5c42", "u7ea7", "uff08">>
        \o <<Digit(input.maxDepth)>>
        \o <<"uff1a", "u5c42", "uff09">>

\* "../../../" under limit 2 is reported
C2_Witness ==
  /\ input.sourceValue = <<".", ".", "/", ".", ".", "/", ".", ".", "/">>
  /\ input.maxDepth = 2
  /\ Len(reports) = 1
  /\ reports[1].message[Len(reports[1].message) - 3] = "2"

(***************************************************************************)
(* C3                                                                      *)
(***************************************************************************)
\* C3: each visit calls report exactly once when the specifier of its node
\* exceeds the limit and not at all otherwise; the reported handle is that of
\* the visited node; so the reports are as many as the offending visits and
\* never more than the visits.
C3_ReportOncePerViolation ==
  /\ \A i \in Visits :
       Len(MessagesAt(reports, i)) = (IF Offending(visited[i], maxDepth) THEN 1 ELSE 0)
  /\ \A j \in 1..Len(reports) :
       /\ reports[j].path.key \in Visits
       /\ reports[j].path.node = visited[reports[j].path.key]
  /\ Len(reports) = Cardinality({i \in Visits : Offending(visited[i], maxDepth)})
  /\ Len(reports) <= Len(visited)

\* a harmless named re-export, then an offending wildcard re-export
C3_Witness ==
  /\ Len(visited) = 2
  /\ visited[1].type = "ExportNamedDeclaration"
  /\ ~Offending(visited[1], maxDepth)
  /\ SpecifierOf(visited[1]) # {}
  /\ visited[2].type = "ExportAllDeclaration"
  /\ Len(reports) = 1
  /\ reports[1].path.key = 2

(***************************************************************************)
(* C4                                                                      *)
(***************************************************************************)
\* C4: after every visit the reported nodes are exactly the offending nodes
\* visited so far, in the order of their visits.
C4_ReportOrder ==
  [j \in 1..Len(reports) |-> reports[j].path.key]
    = SelectSeq([i \in Visits |-> i], LAMBDA i : Offending(visited[i], maxDepth))

\* two offending nodes of different kinds, reported in visit order
C4_Witness ==
  /\ Len(visited) = 2
  /\ visited[1].type = "CallExpression"
  /\ visited[2].type = "ImportDeclaration"
  /\ Len(reports) = 2
  /\ reports[1].path.node = visited[1]
  /\ reports[2].path.node = visited[2]

(***************************************************************************)
(* C5                                                                      *)
(***************************************************************************)
\* node n is one of the reference shapes with a literal specifier: a static
\* import, import(p), require(p), or a re-export with a source
Carrier(n) ==
  \/ n.type \in {"ImportDeclaration", "ExportAllDeclaration"}
  \/ n.type = "ExportNamedDeclaration" /\ n.source.type = "StringLiteral"
  \/ /\ n.type = "CallExpression"
     /\ n.callee.type = "Import" \/ (n.callee.type = "Identifier" /\ n.callee.name = "require")
     /\ LiteralFirstArg(n)

Literal(n) == IF n.type = "CallExpression" THEN n.arguments[1].value ELSE n.source.value

\* C5: reference shapes carrying the same path string have the same outcome:
\* all are reported or none is, and the reported messages are identical.
C5_SameOutcomeAcrossShapes ==
  \A i, j \in Visits :
    (Carrier(visited[i]) /\ Carrier(visited[j]) /\ Literal(visited[i]) = Literal(visited[j]))
      => MessagesAt(reports, i) = MessagesAt(reports, j)

\* require(p) and export * from p, both reported with one message
C5_Witness ==
  /\ Len(visited) = 2
  /\ visited[1].type = "CallExpression"
  /\ visited[1].callee.type = "Identifier"
  /\ visited[2].type = "ExportAllDeclaration"
  /\ Carrier(visited[1])
  /\ Literal(visited[1]) = Literal(visited[2])
  /\ Len(reports) = 2
  /\ reports[1].message = reports[2].message

(***************************************************************************)
(* C6                                                                      *)
(***************************************************************************)
FourUp == <<".", ".", "/", ".", ".", "/", ".", ".", "/", ".", ".", "/", "a">>

\* C6 as claimed: window.require("../../../../a") under limit 2 is reported
\* exactly once, with the call node.
C6_WindowRequire ==
  (/\ Len(visited) = 1
   /\ visited[1] = Call(MemberExpression(Identifier("window"), Identifier("require")),
                        <<StringLiteral(FourUp)>>)
   /\ maxDepth = 2)
    => /\ Len(reports) = 1
       /\ reports[1].path.node = visited[1]

\* C6: a call through a member access, its first argument a string literal
\* exceeding limit 2, is reported exactly once with the call node when the
\* base object of the member access is the identifier require, and is not
\* reported when the base object is anything else (window.require).
C6_MemberRequire ==
  \A i \in Visits :
    (/\ visited[i].type = "CallExpression"
     /\ visited[i].callee.type = "MemberExpression"
     /\ LiteralFirstArg(visited[i])
     /\ Exceeds(visited[i].arguments[1].value, 2))
      => IF visited[i].callee.object = Identifier("require")
         THEN /\ Len(reports) = 1
              /\ reports[1].path = NodePath(visited[i], i)
         ELSE reports = <<>>

\* require.resolve("../../../../a") is reported
C6_Witness ==
  /\ visited = <<Call(MemberExpression(Identifier("require"), Identifier("resolve")),
                      <<StringLiteral(FourUp)>>)>>
  /\ Len(reports) = 1

(***************************************************************************)
(* C7                                                                      *)
(***************************************************************************)
\* no specifier of n can be determined: import(...) or require(...) without a
\* string literal as first argument, or a named export without source
Unanalyzable(n) ==
  \/ /\ n.type = "CallExpression"
     /\ n.callee.type = "Import" \/ (n.callee.type = "Identifier" /\ n.callee.name = "require")
     /\ ~LiteralFirstArg(n)
  \/ n.type = "ExportNamedDeclaration" /\ n.source = Null

\* C7: the visit of a node without a determinable specifier reports nothing
\* and does not invoke checkRelativePath, and the node visited after it is
\* checked and reported as usual.
C7_SilentSkip ==
  \A i \in Visits :
    Unanalyzable(visited[i]) =>
      /\ MessagesAt(reports, i) = <<>>
      /\ CallsAt(i) = <<>>
      /\ (i + 1) \in Visits =>
           /\ Len(CallsAt(i + 1)) = Cardinality(SpecifierOf(visited[i + 1]))
           /\ Len(MessagesAt(reports, i + 1))
                = (IF Offending(visited[i + 1], maxDepth) THEN 1 ELSE 0)

\* a call whose first argument is no literal and whose second is an offending
\* literal is skipped; the offending node after it is reported
C7_Witness ==
  /\ Len(visited) = 2
  /\ visited[1].type = "CallExpression"
  /\ Len(visited[1].arguments) = 2
  /\ Unanalyzable(visited[1])
  /\ Len(reports) = 1
  /\ reports[1].path.key = 2
  /\ Len(calls) = 1

(***************************************************************************)
(* C8                                                                      *)
(***************************************************************************)
\* the limit the caller asked for: the maxDepth of the options, else 2
Requested == IF "maxDepth" \in DOMAIN options THEN options.maxDepth ELSE 2

\* C8 as claimed: a rule built with limit L reports exactly the specifiers
\* exceeding L, and hands L to every check.
C8_LimitFromOptions ==
  /\ \A i \in Visits :
       MessagesAt(reports, i) # <<>> <=> Offending(visited[i], Requested)
  /\ \A k \in 1..Len(calls) : calls[k].maxDepth = Requested

\* C8: the limit is 2 for every rule instance, whatever the options hold:
\* exactly the specifiers exceeding 2 are reported, every check is handed 2
\* and every message prints 2.
C8_FixedLimit ==
  /\ maxDepth = 2
  /\ \A i \in Visits :
       MessagesAt(reports, i) # <<>> <=> Offending(visited[i], 2)
  /\ \A k \in 1..Len(calls) : calls[k].maxDepth = 2
  /\ \A j \in 1..Len(reports) :
       LET m == reports[j].message
       IN SubSeq(m, Len(m) - 4, Len(m)) = <<"uff08", "2", "uff1a", "u5c42", "uff09">>

\* built with maxDepth 3 in the options, "../../../a" is reported all the same
C8_Witness ==
  /\ "maxDepth" \in DOMAIN options
  /\ options.maxDepth = 3
  /\ Len(visited) = 1
  /\ SpecifierOf(visited[1])
       = {<<".", ".", "/", ".", ".", "/", ".", ".", "/", "a">>}
  /\ Len(reports) = 1

(***************************************************************************)
(* C9                                                                      *)
(***************************************************************************)
\* C9: a call node is checked if and only if its callee is import, the
\* identifier require, or a member access on the identifier require, and its
\* first argument is a string literal; it is then checked once, on that
\* argument; a call with any other callee is never reported.
C9_CalleeShapes ==
  \A i \in Visits :
    visited[i].type = "CallExpression" =>
      /\ CallsAt(i) # <<>> <=> (CheckedCallee(visited[i].callee) /\ LiteralFirstArg(visited[i]))
      /\ Len(CallsAt(i)) <= 1
      /\ \A k \in 1..Len(CallsAt(i)) :
           CallsAt(i)[k].sourceValue = visited[i].arguments[1].value
      /\ ~CheckedCallee(visited[i].callee) => MessagesAt(reports, i) = <<>>

\* a call of the result of a call, its argument an offending literal, is not
\* checked
C9_Witness ==
  /\ Len(visited) = 1
  /\ visited[1].type = "CallExpression"
  /\ visited[1].callee.type = "CallExpression"
  /\ LiteralFirstArg(visited[1])
  /\ Exceeds(visited[1].arguments[1].value, maxDepth)
  /\ calls = <<>>
  /\ reports = <<>>

(***************************************************************************)
(* C10                                                                     *)
(***************************************************************************)
\* what one step may change, and what the log says after it
Stateless ==
  /\ maxDepth' = maxDepth
  /\ options' = options
  /\ SubSeq(visited', 1, Len(visited)) = visited
  /\ SubSeq(reports', 1, Len(reports)) = reports
  /\ \A i, j \in 1..Len(visited') :
       SpecifierOf(visited'[i]) = SpecifierOf(visited'[j])
         => MessagesAt(reports', i) = MessagesAt(reports', j)

\* C10: no visit changes the limit, the options, a node visited before or a
\* report made before, and two visits of nodes with the same specifier have
\* the same outcome wherever they stand in the sequence.
C10_Stateless == [][Stateless]_vars

\* one offending node visited twice, reported twice with one message
C10_Witness ==
  /\ Len(visited) = 2
  /\ visited[1] = visited[2]
  /\ Len(reports) = 2
  /\ reports[1].message = reports[2].message
  /\ reports[1].path # reports[2].path

====
